---- MODULE Spec2Model ----
(***************************************************************************)
(* Tool-calling agent loops of the repository:                             *)
(*   - approach_3_agent_loop   (Community Servers/main.py, and its copy    *)
(*                              Community Servers/src-mcp/agenti loop.py)  *)
(*   - GroqNotionEmailSystem.process_message (mcp-notion-email)            *)
(* One behaviour runs one of the two programs; `prog` says which.          *)
(***************************************************************************)
EXTENDS Integers, Sequences, FiniteSets, TLC

VARIABLES
    prog,                 \* "a3": approach_3_agent_loop, "pm": process_message
    \* ---- approach_3_agent_loop ----
    messages,             \* local list `messages`
    iteration,            \* loop variable of `for iteration in range(max_iterations)`
    a3_response,          \* response_message.tool_calls of the current round
    a3_k,                 \* position of the inner `for tool_call in ...` loop
    a3_pc,                \* position of the function
    a3_result,            \* value returned to the caller
    \* ---- GroqNotionEmailSystem / MCPServerManager ----
    sessions,             \* mcp_manager.sessions (server names, insertion order)
    conversation_history, \* self.conversation_history
    all_tools,            \* local `all_tools` of process_message
    pm_response,          \* response_message.tool_calls
    pm_k,                 \* position of `for tool_call in response_message.tool_calls`
    tool_results,         \* local `tool_results`
    pm_pc,                \* position of the coroutine
    pm_result,            \* value returned to the caller
    invocations,          \* number of process_message invocations started
    \* ---- environment / observation ----
    nextId,               \* next tool_call id the model will emit
    modelCalls,           \* completion calls issued by the current invocation
    sent,                 \* `messages=` argument of the last completion call
    execLog,              \* tool_call ids in the order their execution started
    running,              \* tool_call ids whose execution has started, not ended
    toolFailed,           \* some requested tool call did not succeed
    raisedIds,            \* tool_call ids whose call_tool raised
    lastModel,            \* outcome of the last completion call
    sessionCalls,         \* requests sent to a session: [id, server, tool], in order
    \* ---- tool names: _create_tool_schemas and their parsing ("names") ----
    rt_server,            \* a server name of list_all_tools, as its parts
    rt_tool,              \* a tool name listed by that server, as its parts
    rt_name,              \* the function name published for the pair
    rt_route,             \* (server_name, actual_tool_name) parsed from rt_name
    rt_pc,
    \* ---- two process_message coroutines on the one `system` ("co") ----
    co_pc,                \* position of each coroutine
    co_tools,             \* local `all_tools` of each coroutine
    co_response,          \* local response_message.tool_calls of each coroutine
    co_k,                 \* position of each coroutine's tool loop
    co_results,           \* local `tool_results` of each coroutine
    co_result,            \* value each coroutine returned
    co_holder,            \* coroutine the event loop is running, 0 when all are suspended
    owners,               \* for each entry of conversation_history, the coroutine that appended it
    \* ---- MCPServerManager: start_all_servers, start_server, close_all ("mgr") ----
    env,                  \* servers whose required environment variable is set
    stubborn,             \* servers whose child process does not exit on terminate()
    st_pc,                \* position of each start_server task
    procs,                \* state of the child process spawned for each server
    servers,              \* mcp_manager.servers (server names, insertion order)
    closed,               \* sessions on which close() completed
    mg_pc,                \* position of the manager's caller
    mg_k,                 \* position of the loops of close_all
    mg_result,            \* value returned by start_all_servers
    listing,              \* output of the last list_all_tools call
    prev_listing,         \* output of the call before it, when nothing was started or closed since
    listed,               \* list_all_tools calls since a server was last started or closed (2: two or more)
    requests,             \* list_tools / call_tool requests sent to sessions
    \* ---- approach_2_function_calling ("a2") ----
    a2_messages,          \* local list `messages`
    a2_content,           \* response_message.content of the first response
    a2_tool_calls,        \* local `tool_calls`
    a2_k,                 \* position of `for tool_call in tool_calls`
    function_response,    \* local `function_response`
    a2_pc,                \* position of the function
    a2_result,            \* value returned to the caller
    \* ---- the agent tools of Docs-sheet-mcp/Direct-Api.py ("gw") ----
    gw_tool,              \* the tool function called
    gw_len,               \* rows of the range, or files the Drive API has to return
    gw_fails,             \* the API call raises HttpError
    gw_value,             \* what the GoogleWorkspaceTools method returned
    gw_pc,                \* position of the tool function
    gw_out                \* what the tool function returned

a3vars  == <<messages, iteration, a3_response, a3_k, a3_pc, a3_result>>
pmvars  == <<sessions, conversation_history, all_tools, pm_response, pm_k,
             tool_results, pm_pc, pm_result, invocations>>
obsvars == <<nextId, modelCalls, sent, execLog, running, toolFailed, raisedIds, lastModel>>
rtvars  == <<rt_server, rt_tool, rt_name, rt_route, rt_pc>>
covars  == <<co_pc, co_tools, co_response, co_k, co_results, co_result, co_holder, owners>>
mlvars  == <<listing, prev_listing, listed, requests>>
mgrvars == <<env, stubborn, st_pc, procs, servers, closed, mg_pc, mg_k, mg_result, mlvars>>
a2vars  == <<a2_messages, a2_content, a2_tool_calls, a2_k, function_response, a2_pc, a2_result>>
gwvars  == <<gw_tool, gw_len, gw_fails, gw_value, gw_pc, gw_out>>
xvars   == <<rtvars, covars, mgrvars, a2vars, gwvars>>
vars    == <<prog, a3vars, pmvars, obsvars, sessionCalls, xvars>>

(***************************************************************************)
(* Bounds                                                                  *)
(***************************************************************************)
MaxA3Calls     == 7   \* tool calls the model requests in one agent-loop run
MaxPMCalls     == 2   \* tool calls the model requests in one conversation
MaxInvocations == 2   \* process_message invocations on one conversation
MaxBatch       == 2   \* tool calls in one model response
MaxNameParts   == 2   \* underscore-free parts of a server or tool name
MaxSheetRows   == 53  \* rows (header included) of the range read_spreadsheet returns
MaxFiles       == 2   \* files the Drive API returns

(***************************************************************************)
(* Values                                                                  *)
(***************************************************************************)
Texts == {"text1", "text2"}          \* message.content of a text answer
NoContent == "None"                  \* message.content of a tool-call answer
UserMessages == {"user_message"}

Range(s) == {s[j] : j \in 1..Len(s)}

\* the ids of a batch of n tool calls emitted when the next id is `first`
BatchOf(first, n, names, argss) ==
    [j \in 1..n |-> [id |-> first + j - 1, name |-> names[j], arguments |-> argss[j]]]

\* json.loads(tool_call.function.arguments): defined on valid JSON text only
ArgumentTexts == {"valid_json", "invalid_json"}
json_loads_ok(arguments) == arguments = "valid_json"

(***************************************************************************)
(* approach_3_agent_loop                                                   *)
(***************************************************************************)
max_iterations == 5
MaxIterationsReached == "Max iterations reached"

available_tools == {"search_notion", "read_page", "create_page"}
\* function names the model may put in a tool call
A3ToolNames == {"search_notion", "read_page", "unknown_tool"}

A3UserMsg == [role |-> "user", content |-> "user_message", tool_calls |-> <<>>,
              tool_call_id |-> 0, name |-> ""]
A3AssistantMsg(tcs) == [role |-> "assistant", content |-> NoContent, tool_calls |-> tcs,
                        tool_call_id |-> 0, name |-> ""]
A3ToolMsg(tc) == [role |-> "tool", content |-> "function_response", tool_calls |-> <<>>,
                  tool_call_id |-> tc.id, name |-> tc.name]

\* a loop that goes on calling the model whatever the value of `iteration`
A3CallModelUnbounded ==
    /\ prog = "a3" /\ a3_pc = "top"
    /\ a3_pc' = "await_model"
    /\ sent' = messages
    /\ modelCalls' = modelCalls + 1
    /\ UNCHANGED <<prog, xvars, sessionCalls, messages, iteration, a3_response, a3_k, a3_result, pmvars,
                   nextId, execLog, running, toolFailed, raisedIds, lastModel>>

\* groq_client.chat.completions.create(...) is issued at the top of a round
A3CallModel ==
    /\ prog = "a3" /\ a3_pc = "top" /\ iteration < max_iterations
    /\ a3_pc' = "await_model"
    /\ sent' = messages
    /\ modelCalls' = modelCalls + 1
    /\ UNCHANGED <<prog, xvars, sessionCalls, messages, iteration, a3_response, a3_k, a3_result, pmvars,
                   nextId, execLog, running, toolFailed, raisedIds, lastModel>>

\* the completion call raises: nothing catches it
A3ModelRaises ==
    /\ prog = "a3" /\ a3_pc = "await_model"
    /\ a3_pc' = "raised"
    /\ lastModel' = "raised"
    /\ UNCHANGED <<prog, xvars, sessionCalls, messages, iteration, a3_response, a3_k, a3_result, pmvars,
                   nextId, modelCalls, sent, execLog, running, toolFailed, raisedIds>>

\* `if not response_message.tool_calls: return response_message.content`
A3ModelText ==
    /\ prog = "a3" /\ a3_pc = "await_model"
    /\ \E content \in Texts : a3_result' = content
    /\ a3_pc' = "returned"
    /\ lastModel' = "text"
    /\ UNCHANGED <<prog, xvars, sessionCalls, messages, iteration, a3_response, a3_k, pmvars,
                   nextId, modelCalls, sent, execLog, running, toolFailed, raisedIds>>

\* the response carries tool calls: messages.append(response_message)
A3ModelTools ==
    /\ prog = "a3" /\ a3_pc = "await_model"
    /\ \E n \in 1..MaxBatch :
       \E names \in [1..n -> A3ToolNames], argss \in [1..n -> ArgumentTexts] :
          LET tcs == BatchOf(nextId, n, names, argss) IN
          /\ nextId + n - 1 <= MaxA3Calls
          /\ messages' = Append(messages, A3AssistantMsg(tcs))
          /\ a3_response' = tcs
          /\ nextId' = nextId + n
    /\ a3_k' = 1
    /\ a3_pc' = "tools"
    /\ lastModel' = "tools"
    /\ UNCHANGED <<prog, xvars, sessionCalls, iteration, a3_result, pmvars, modelCalls, sent, execLog,
                   running, toolFailed, raisedIds>>

\* json.loads(tool_call.function.arguments) raises
A3ToolBadArguments ==
    /\ prog = "a3" /\ a3_pc = "tools" /\ a3_k <= Len(a3_response)
    /\ ~json_loads_ok(a3_response[a3_k].arguments)
    /\ a3_pc' = "raised"
    /\ toolFailed' = TRUE
    /\ UNCHANGED <<prog, xvars, sessionCalls, messages, iteration, a3_response, a3_k, a3_result, pmvars,
                   nextId, modelCalls, sent, execLog, running, raisedIds, lastModel>>

\* available_tools[function_name] raises KeyError
A3ToolUnknown ==
    /\ prog = "a3" /\ a3_pc = "tools" /\ a3_k <= Len(a3_response)
    /\ json_loads_ok(a3_response[a3_k].arguments)
    /\ a3_response[a3_k].name \notin available_tools
    /\ a3_pc' = "raised"
    /\ toolFailed' = TRUE
    /\ UNCHANGED <<prog, xvars, sessionCalls, messages, iteration, a3_response, a3_k, a3_result, pmvars,
                   nextId, modelCalls, sent, execLog, running, raisedIds, lastModel>>

\* function_to_call(**function_args) is entered
A3ToolStart ==
    /\ prog = "a3" /\ a3_pc = "tools" /\ a3_k <= Len(a3_response)
    /\ json_loads_ok(a3_response[a3_k].arguments)
    /\ a3_response[a3_k].name \in available_tools
    /\ a3_pc' = "in_tool"
    /\ execLog' = Append(execLog, a3_response[a3_k].id)
    /\ running' = running \cup {a3_response[a3_k].id}
    /\ UNCHANGED <<prog, xvars, sessionCalls, messages, iteration, a3_response, a3_k, a3_result, pmvars,
                   nextId, modelCalls, sent, toolFailed, raisedIds, lastModel>>

\* the function returns: messages.append({"tool_call_id": ..., "role": "tool", ...})
A3ToolReturn ==
    /\ prog = "a3" /\ a3_pc = "in_tool"
    /\ messages' = Append(messages, A3ToolMsg(a3_response[a3_k]))
    /\ running' = running \ {a3_response[a3_k].id}
    /\ a3_k' = a3_k + 1
    /\ a3_pc' = "tools"
    /\ UNCHANGED <<prog, xvars, sessionCalls, iteration, a3_response, a3_result, pmvars,
                   nextId, modelCalls, sent, execLog, toolFailed, raisedIds, lastModel>>

\* the function raises (Notion API error, wrong keyword arguments): not caught
A3ToolRaises ==
    /\ prog = "a3" /\ a3_pc = "in_tool"
    /\ running' = running \ {a3_response[a3_k].id}
    /\ a3_pc' = "raised"
    /\ toolFailed' = TRUE
    /\ UNCHANGED <<prog, xvars, sessionCalls, messages, iteration, a3_response, a3_k, a3_result, pmvars,
                   nextId, modelCalls, sent, execLog, raisedIds, lastModel>>

\* the inner for loop is exhausted: next value of `iteration`
A3NextIteration ==
    /\ prog = "a3" /\ a3_pc = "tools" /\ a3_k > Len(a3_response)
    /\ iteration' = iteration + 1
    /\ a3_response' = <<>>
    /\ a3_k' = 0
    /\ a3_pc' = "top"
    /\ UNCHANGED <<prog, xvars, sessionCalls, messages, a3_result, pmvars, obsvars>>

\* the function falls off its end without a return statement
A3LimitFallsThrough ==
    /\ prog = "a3" /\ a3_pc = "top" /\ iteration >= max_iterations
    /\ a3_result' = "None"
    /\ a3_pc' = "returned"
    /\ UNCHANGED <<prog, xvars, sessionCalls, messages, iteration, a3_response, a3_k, pmvars, obsvars>>

\* range(max_iterations) is exhausted: return "Max iterations reached"
A3Limit ==
    /\ prog = "a3" /\ a3_pc = "top" /\ iteration >= max_iterations
    /\ a3_result' = MaxIterationsReached
    /\ a3_pc' = "returned"
    /\ UNCHANGED <<prog, xvars, sessionCalls, messages, iteration, a3_response, a3_k, pmvars, obsvars>>

A3Next ==
    \/ A3CallModel \/ A3ModelRaises \/ A3ModelText \/ A3ModelTools
    \/ A3ToolBadArguments \/ A3ToolUnknown \/ A3ToolStart \/ A3ToolReturn
    \/ A3ToolRaises \/ A3NextIteration \/ A3Limit

(***************************************************************************)
(* MCPServerManager (mcp_manager.py)                                       *)
(***************************************************************************)
\* A name is the sequence of its underscore-free parts: <<"notion", "search">>
\* is the text "notion_search".  Server names of config.MCP_SERVERS have one part.
ServerTools(server) ==
    CASE server = "notion" -> << <<"search">> >>
      [] server = "email"  -> << <<"send">>, <<"search">> >>
      [] OTHER             -> <<>>

\* list_all_tools: one entry per session, in the order of self.sessions;
\* a session whose list_tools raises contributes an empty list
list_all_tools(failing) ==
    [j \in 1..Len(sessions) |->
        [server |-> sessions[j],
         tools  |-> IF sessions[j] \in failing THEN <<>> ELSE ServerTools(sessions[j])]]

\* call_tool: `if server_name not in self.sessions: raise ValueError`
Connected(server_name) == server_name \in Range(sessions)

(***************************************************************************)
(* GroqNotionEmailSystem.process_message (groq_agent.py)                   *)
(***************************************************************************)
\* tool names the model may put in a tool call
PMToolNames == { <<"notion", "search">>, <<"notion", "unknown">>, <<"search">>,
                 <<"unknown">>, <<"slack", "post">> }

NoServer == "None"

\* the servers of all_tools, in order, that list a tool called tool_name
Exposing(tools, tool_name) ==
    SelectSeq(tools, LAMBDA e : tool_name \in Range(e.tools))

\* lines 102-112: "server_tool" is split at the first underscore; a name
\* without underscore is looked up in all_tools, first match wins
server_name_of(tool_name, tools) ==
    IF Len(tool_name) > 1 THEN tool_name[1]
    ELSE IF Exposing(tools, tool_name) # <<>> THEN Exposing(tools, tool_name)[1].server
    ELSE NoServer
actual_tool_name_of(tool_name) ==
    IF Len(tool_name) > 1 THEN Tail(tool_name) ELSE tool_name

\* `if not server_name`: None and the empty string are both falsy
Falsy(server_name) == server_name = NoServer \/ server_name = ""

ErrModel == "Error processing message: completion call failed"
ErrJson  == "Error processing message: JSONDecodeError"
OutOk       == "result.content"
OutNoServer == "Could not find server for tool"
OutCallErr  == "Error calling tool"

PMUserMsg(text) == [role |-> "user", content |-> text, tool_calls |-> <<>>, tool_call_id |-> 0]
PMAssistantMsg(text, tcs) ==
    [role |-> "assistant", content |-> text, tool_calls |-> tcs, tool_call_id |-> 0]
PMToolMsg(r) ==
    [role |-> "tool", content |-> r.output, tool_calls |-> <<>>, tool_call_id |-> r.tool_call_id]

\* only the last result is turned into a message
ToolMessagesLast(results) ==
    IF results = <<>> THEN <<>> ELSE << PMToolMsg(results[Len(results)]) >>

\* the results are turned into messages last first
ToolMessagesReversed(results) ==
    [j \in 1..Len(results) |-> PMToolMsg(results[Len(results) + 1 - j])]

\* lines 146-151: one tool message per entry of tool_results, in order
ToolMessages(results) == [j \in 1..Len(results) |-> PMToolMsg(results[j])]

PMCur == pm_response[pm_k]
PMAtCall == prog = "pm" /\ pm_pc = "tools" /\ pm_k <= Len(pm_response)

\* lines 73-89: list the tools, append the user message, issue the first completion call
PMBegin ==
    /\ prog = "pm" /\ pm_pc \in {"idle", "returned"}
    /\ invocations < MaxInvocations
    /\ invocations' = invocations + 1
    /\ \E failing \in SUBSET Range(sessions) : all_tools' = list_all_tools(failing)
    /\ \E user_message \in UserMessages :
          conversation_history' = Append(conversation_history, PMUserMsg(user_message))
    /\ sent' = conversation_history'
    /\ modelCalls' = 1
    /\ pm_result' = "unset"
    /\ pm_pc' = "await_model1"
    /\ pm_response' = <<>>
    /\ UNCHANGED <<prog, xvars, sessionCalls, a3vars, sessions, pm_k, tool_results,
                   nextId, execLog, running, toolFailed, raisedIds, lastModel>>

\* a handler that also records the error text in the conversation
PMExceptRecords(error_msg) ==
    /\ pm_result' = error_msg
    /\ pm_pc' = "returned"
    /\ all_tools' = <<>>
    /\ pm_k' = 0
    /\ tool_results' = <<>>
    /\ conversation_history' = Append(conversation_history, PMAssistantMsg(error_msg, <<>>))
    /\ UNCHANGED pm_response

\* the outer `except Exception` (lines 168-171): return the error text;
\* the locals are dropped, the conversation is left as it is
PMExcept(error_msg) ==
    /\ pm_result' = error_msg
    /\ pm_pc' = "returned"
    /\ all_tools' = <<>>
    /\ pm_k' = 0
    /\ tool_results' = <<>>
    /\ UNCHANGED <<pm_response, conversation_history>>

\* the first completion call raises
PMModel1Raises ==
    /\ prog = "pm" /\ pm_pc = "await_model1"
    /\ PMExcept(ErrModel)
    /\ lastModel' = "raised"
    /\ UNCHANGED <<prog, xvars, sessionCalls, a3vars, sessions, invocations,
                   nextId, modelCalls, sent, execLog, running, toolFailed, raisedIds>>

\* lines 91-92, 163-166: no tool calls
PMModel1Text ==
    /\ prog = "pm" /\ pm_pc = "await_model1"
    /\ \E content \in Texts :
          /\ conversation_history' = conversation_history \o
                 << PMAssistantMsg(content, <<>>), PMAssistantMsg(content, <<>>) >>
          /\ pm_result' = content
    /\ pm_pc' = "returned"
    /\ all_tools' = <<>>
    /\ lastModel' = "text"
    /\ UNCHANGED <<prog, xvars, sessionCalls, a3vars, sessions, pm_response, pm_k, tool_results, invocations,
                   nextId, modelCalls, sent, execLog, running, toolFailed, raisedIds>>

\* lines 91-96: the response carries tool calls
PMModel1Tools ==
    /\ prog = "pm" /\ pm_pc = "await_model1"
    /\ \E n \in 1..MaxBatch :
       \E names \in [1..n -> PMToolNames], argss \in [1..n -> ArgumentTexts] :
          LET tcs == BatchOf(nextId, n, names, argss) IN
          /\ nextId + n - 1 <= MaxPMCalls
          /\ conversation_history' = Append(conversation_history, PMAssistantMsg(NoContent, tcs))
          /\ pm_response' = tcs
          /\ nextId' = nextId + n
    /\ pm_k' = 1
    /\ tool_results' = <<>>
    /\ pm_pc' = "tools"
    /\ lastModel' = "tools"
    /\ UNCHANGED <<prog, xvars, sessionCalls, a3vars, sessions, all_tools, pm_result, invocations,
                   modelCalls, sent, execLog, running, toolFailed, raisedIds>>

\* line 100: json.loads raises; only the outer handler catches it
PMToolBadArguments ==
    /\ PMAtCall
    /\ ~json_loads_ok(PMCur.arguments)
    /\ PMExcept(ErrJson)
    /\ toolFailed' = TRUE
    /\ UNCHANGED <<prog, xvars, sessionCalls, a3vars, sessions, invocations,
                   nextId, modelCalls, sent, execLog, running, raisedIds, lastModel>>

\* lines 114-121: no server for the name
PMToolNoServer ==
    /\ PMAtCall
    /\ json_loads_ok(PMCur.arguments)
    /\ Falsy(server_name_of(PMCur.name, all_tools))
    /\ tool_results' = Append(tool_results, [tool_call_id |-> PMCur.id, output |-> OutNoServer])
    /\ pm_k' = pm_k + 1
    /\ toolFailed' = TRUE
    /\ UNCHANGED <<prog, xvars, sessionCalls, a3vars, sessions, conversation_history, all_tools, pm_response,
                   pm_pc, pm_result, invocations, nextId, modelCalls, sent, execLog, running, raisedIds, lastModel>>

\* line 127 with mcp_manager.py line 86-87: ValueError, caught at line 137
PMToolNotConnected ==
    /\ PMAtCall
    /\ json_loads_ok(PMCur.arguments)
    /\ ~Falsy(server_name_of(PMCur.name, all_tools))
    /\ ~Connected(server_name_of(PMCur.name, all_tools))
    /\ tool_results' = Append(tool_results, [tool_call_id |-> PMCur.id, output |-> OutCallErr])
    /\ pm_k' = pm_k + 1
    /\ toolFailed' = TRUE
    /\ raisedIds' = raisedIds \cup {PMCur.id}
    /\ UNCHANGED <<prog, xvars, sessionCalls, a3vars, sessions, conversation_history, all_tools, pm_response,
                   pm_pc, pm_result, invocations, nextId, modelCalls, sent, execLog, running, lastModel>>

\* line 127 with mcp_manager.py line 90: the request goes to the session
PMToolStart ==
    /\ PMAtCall
    /\ json_loads_ok(PMCur.arguments)
    /\ ~Falsy(server_name_of(PMCur.name, all_tools))
    /\ Connected(server_name_of(PMCur.name, all_tools))
    /\ pm_pc' = "in_tool"
    /\ execLog' = Append(execLog, PMCur.id)
    /\ running' = running \cup {PMCur.id}
    /\ sessionCalls' = Append(sessionCalls,
          [id |-> PMCur.id, server |-> server_name_of(PMCur.name, all_tools),
           tool |-> actual_tool_name_of(PMCur.name)])
    /\ UNCHANGED <<prog, xvars, a3vars, sessions, conversation_history, all_tools, pm_response,
                   pm_k, tool_results, pm_result, invocations, nextId, modelCalls, sent,
                   toolFailed, raisedIds, lastModel>>

\* lines 128-133: the session answers
PMToolReturn ==
    /\ prog = "pm" /\ pm_pc = "in_tool"
    /\ tool_results' = Append(tool_results, [tool_call_id |-> PMCur.id, output |-> OutOk])
    /\ running' = running \ {PMCur.id}
    /\ pm_k' = pm_k + 1
    /\ pm_pc' = "tools"
    /\ UNCHANGED <<prog, xvars, sessionCalls, a3vars, sessions, conversation_history, all_tools, pm_response,
                   pm_result, invocations, nextId, modelCalls, sent, execLog, toolFailed, raisedIds, lastModel>>

\* a handler that tries the same tool call again after a failure
PMToolRaisesRetry ==
    /\ prog = "pm" /\ pm_pc = "in_tool"
    /\ running' = running \ {PMCur.id}
    /\ pm_pc' = "tools"
    /\ toolFailed' = TRUE
    /\ raisedIds' = raisedIds \cup {PMCur.id}
    /\ UNCHANGED <<prog, xvars, sessionCalls, a3vars, sessions, conversation_history, all_tools,
                   pm_response, pm_k, tool_results, pm_result, invocations, nextId,
                   modelCalls, sent, execLog, lastModel>>

\* lines 137-143 with mcp_manager.py lines 92-94: the session call raises
PMToolRaises ==
    /\ prog = "pm" /\ pm_pc = "in_tool"
    /\ tool_results' = Append(tool_results, [tool_call_id |-> PMCur.id, output |-> OutCallErr])
    /\ running' = running \ {PMCur.id}
    /\ pm_k' = pm_k + 1
    /\ pm_pc' = "tools"
    /\ toolFailed' = TRUE
    /\ raisedIds' = raisedIds \cup {PMCur.id}
    /\ UNCHANGED <<prog, xvars, sessionCalls, a3vars, sessions, conversation_history, all_tools, pm_response,
                   pm_result, invocations, nextId, modelCalls, sent, execLog, lastModel>>

\* lines 145-157: append the tool messages, issue the second completion call
PMSendResults ==
    /\ prog = "pm" /\ pm_pc = "tools" /\ pm_k > Len(pm_response)
    /\ conversation_history' = conversation_history \o ToolMessages(tool_results)
    /\ sent' = conversation_history'
    /\ modelCalls' = modelCalls + 1
    /\ pm_pc' = "await_model2"
    /\ UNCHANGED <<prog, xvars, sessionCalls, a3vars, sessions, all_tools, pm_response, pm_k, tool_results,
                   pm_result, invocations, nextId, execLog, running, toolFailed, raisedIds, lastModel>>

\* the second completion call raises
PMModel2Raises ==
    /\ prog = "pm" /\ pm_pc = "await_model2"
    /\ PMExcept(ErrModel)
    /\ lastModel' = "raised"
    /\ UNCHANGED <<prog, xvars, sessionCalls, a3vars, sessions, invocations,
                   nextId, modelCalls, sent, execLog, running, toolFailed, raisedIds>>

\* a version that keeps the conversation short by dropping its oldest message
PMModel2TextTrims ==
    /\ prog = "pm" /\ pm_pc = "await_model2"
    /\ \E final_message \in Texts :
          /\ conversation_history' = Tail(Append(conversation_history,
                                                 PMAssistantMsg(final_message, <<>>)))
          /\ pm_result' = final_message
    /\ pm_pc' = "returned"
    /\ all_tools' = <<>>
    /\ pm_k' = 0
    /\ tool_results' = <<>>
    /\ lastModel' = "text"
    /\ UNCHANGED <<prog, xvars, sessionCalls, a3vars, sessions, pm_response, invocations,
                   nextId, modelCalls, sent, execLog, running, toolFailed, raisedIds>>

\* a version that returns the answer without recording it
PMModel2TextUnrecorded ==
    /\ prog = "pm" /\ pm_pc = "await_model2"
    /\ \E final_message \in Texts : pm_result' = final_message
    /\ pm_pc' = "returned"
    /\ all_tools' = <<>>
    /\ pm_k' = 0
    /\ tool_results' = <<>>
    /\ lastModel' = "text"
    /\ UNCHANGED <<prog, xvars, sessionCalls, a3vars, sessions, conversation_history,
                   pm_response, invocations,
                   nextId, modelCalls, sent, execLog, running, toolFailed, raisedIds>>

\* lines 159-162: the content of the second response is the answer
PMModel2Text ==
    /\ prog = "pm" /\ pm_pc = "await_model2"
    /\ \E final_message \in Texts :
          /\ conversation_history' = Append(conversation_history,
                                            PMAssistantMsg(final_message, <<>>))
          /\ pm_result' = final_message
    /\ pm_pc' = "returned"
    /\ all_tools' = <<>>
    /\ pm_k' = 0
    /\ tool_results' = <<>>
    /\ UNCHANGED pm_response
    /\ lastModel' = "text"
    /\ UNCHANGED <<prog, xvars, sessionCalls, a3vars, sessions, invocations,
                   nextId, modelCalls, sent, execLog, running, toolFailed, raisedIds>>

PMNext ==
    \/ PMBegin \/ PMModel1Raises \/ PMModel1Text \/ PMModel1Tools
    \/ PMToolBadArguments \/ PMToolNoServer \/ PMToolNotConnected \/ PMToolStart
    \/ PMToolReturn \/ PMToolRaises \/ PMSendResults \/ PMModel2Raises \/ PMModel2Text

(***************************************************************************)
(* process_message with its caller and its environment                     *)
(***************************************************************************)
\* clear_conversation (lines 173-176); the demo calls it between two messages
PMClear ==
    /\ prog = "pm" /\ pm_pc \in {"idle", "returned"}
    /\ conversation_history' = <<>>
    /\ UNCHANGED <<prog, xvars, sessionCalls, a3vars, sessions, all_tools, pm_response, pm_k,
                   tool_results, pm_pc, pm_result, invocations, obsvars>>

\* the session never answers the request of line 127 / mcp_manager.py line 90:
\* the await has no deadline
PMToolNeverAnswers ==
    /\ prog = "pm" /\ pm_pc = "in_tool"
    /\ pm_pc' = "waiting_forever"
    /\ UNCHANGED <<prog, xvars, sessionCalls, a3vars, sessions, conversation_history, all_tools,
                   pm_response, pm_k, tool_results, pm_result, invocations, obsvars>>

\* the task running process_message is cancelled while it awaits call_tool:
\* CancelledError is a BaseException, `except Exception` (lines 137, 168)
\* does not catch it
PMCancel ==
    /\ prog = "pm" /\ pm_pc \in {"in_tool", "waiting_forever"}
    /\ pm_pc' = "cancelled"
    /\ running' = running \ {PMCur.id}
    /\ tool_results' = <<>>
    /\ all_tools' = <<>>
    /\ UNCHANGED <<prog, xvars, sessionCalls, a3vars, sessions, conversation_history, pm_response,
                   pm_k, pm_result, invocations, nextId, modelCalls, sent, execLog,
                   toolFailed, raisedIds, lastModel>>

PMNextExt == PMNext \/ PMClear \/ PMToolNeverAnswers \/ PMCancel

(***************************************************************************)
(* Two process_message coroutines on the module-level `system`             *)
(* (groq_agent.py lines 183-184).  A coroutine gives up the event loop     *)
(* only at an await that suspends: the session requests of list_all_tools  *)
(* (line 75) and of call_tool (line 127).  The completion calls (lines 84  *)
(* and 154) are synchronous: nothing else runs during them.                *)
(***************************************************************************)
Coroutines == 1..2

\* what a coroutine leaves alone: the other programs and the observation
coframe == <<prog, a3vars, rtvars, mgrvars, a2vars, gwvars, sessions, all_tools, pm_response, pm_k, tool_results,
             pm_pc, pm_result, invocations, modelCalls, sent, execLog, running,
             toolFailed, raisedIds, lastModel, sessionCalls>>

CoCur(p) == co_response[p][co_k[p]]
CoAtCall(p) ==
    /\ prog = "co" /\ co_holder = p /\ co_pc[p] = "tools"
    /\ co_k[p] <= Len(co_response[p])
CoAppend(p, msgs) ==
    /\ conversation_history' = conversation_history \o msgs
    /\ owners' = owners \o [j \in 1..Len(msgs) |-> p]

\* line 75: the coroutine is scheduled and suspends in list_all_tools
CoBegin(p) ==
    /\ prog = "co" /\ co_holder = 0 /\ co_pc[p] = "start"
    /\ co_pc' = [co_pc EXCEPT ![p] = "listing"]
    /\ UNCHANGED <<coframe, conversation_history, nextId, co_tools, co_response, co_k,
                   co_results, co_result, co_holder, owners>>

\* lines 75-89: the tool lists arrive, the user message is appended and the
\* first completion call is issued
CoListed(p) ==
    /\ prog = "co" /\ co_holder = 0 /\ co_pc[p] = "listing"
    /\ \E failing \in SUBSET Range(sessions) :
          co_tools' = [co_tools EXCEPT ![p] = list_all_tools(failing)]
    /\ \E user_message \in UserMessages : CoAppend(p, << PMUserMsg(user_message) >>)
    /\ co_pc' = [co_pc EXCEPT ![p] = "await_model1"]
    /\ co_holder' = p
    /\ UNCHANGED <<coframe, nextId, co_response, co_k, co_results, co_result>>

\* the outer `except Exception` (lines 168-171)
CoExcept(p, error_msg) ==
    /\ co_result' = [co_result EXCEPT ![p] = error_msg]
    /\ co_pc' = [co_pc EXCEPT ![p] = "returned"]
    /\ co_holder' = 0
    /\ UNCHANGED <<conversation_history, owners>>

CoModel1Raises(p) ==
    /\ prog = "co" /\ co_holder = p /\ co_pc[p] = "await_model1"
    /\ CoExcept(p, ErrModel)
    /\ UNCHANGED <<coframe, nextId, co_tools, co_response, co_k, co_results>>

\* lines 91-92, 163-166
CoModel1Text(p) ==
    /\ prog = "co" /\ co_holder = p /\ co_pc[p] = "await_model1"
    /\ \E content \in Texts :
          /\ CoAppend(p, << PMAssistantMsg(content, <<>>), PMAssistantMsg(content, <<>>) >>)
          /\ co_result' = [co_result EXCEPT ![p] = content]
    /\ co_pc' = [co_pc EXCEPT ![p] = "returned"]
    /\ co_holder' = 0
    /\ UNCHANGED <<coframe, nextId, co_tools, co_response, co_k, co_results>>

\* lines 91-96
CoModel1Tools(p) ==
    /\ prog = "co" /\ co_holder = p /\ co_pc[p] = "await_model1"
    /\ \E n \in 1..MaxBatch :
       \E names \in [1..n -> PMToolNames], argss \in [1..n -> ArgumentTexts] :
          LET tcs == BatchOf(nextId, n, names, argss) IN
          /\ nextId + n - 1 <= MaxPMCalls
          /\ CoAppend(p, << PMAssistantMsg(NoContent, tcs) >>)
          /\ co_response' = [co_response EXCEPT ![p] = tcs]
          /\ nextId' = nextId + n
    /\ co_k' = [co_k EXCEPT ![p] = 1]
    /\ co_results' = [co_results EXCEPT ![p] = <<>>]
    /\ co_pc' = [co_pc EXCEPT ![p] = "tools"]
    /\ UNCHANGED <<coframe, co_tools, co_result, co_holder>>

\* line 100
CoToolBadArguments(p) ==
    /\ CoAtCall(p)
    /\ ~json_loads_ok(CoCur(p).arguments)
    /\ CoExcept(p, ErrJson)
    /\ UNCHANGED <<coframe, nextId, co_tools, co_response, co_k, co_results>>

CoRecord(p, output) ==
    /\ co_results' = [co_results EXCEPT ![p] =
                         Append(@, [tool_call_id |-> CoCur(p).id, output |-> output])]
    /\ co_k' = [co_k EXCEPT ![p] = @ + 1]

\* lines 114-121
CoToolNoServer(p) ==
    /\ CoAtCall(p)
    /\ json_loads_ok(CoCur(p).arguments)
    /\ Falsy(server_name_of(CoCur(p).name, co_tools[p]))
    /\ CoRecord(p, OutNoServer)
    /\ UNCHANGED <<coframe, conversation_history, nextId, co_pc, co_tools, co_response,
                   co_result, co_holder, owners>>

\* line 127 with mcp_manager.py lines 86-87
CoToolNotConnected(p) ==
    /\ CoAtCall(p)
    /\ json_loads_ok(CoCur(p).arguments)
    /\ ~Falsy(server_name_of(CoCur(p).name, co_tools[p]))
    /\ ~Connected(server_name_of(CoCur(p).name, co_tools[p]))
    /\ CoRecord(p, OutCallErr)
    /\ UNCHANGED <<coframe, conversation_history, nextId, co_pc, co_tools, co_response,
                   co_result, co_holder, owners>>

\* line 127 with mcp_manager.py line 90: the coroutine suspends on the session
CoToolStart(p) ==
    /\ CoAtCall(p)
    /\ json_loads_ok(CoCur(p).arguments)
    /\ ~Falsy(server_name_of(CoCur(p).name, co_tools[p]))
    /\ Connected(server_name_of(CoCur(p).name, co_tools[p]))
    /\ co_pc' = [co_pc EXCEPT ![p] = "in_tool"]
    /\ co_holder' = 0
    /\ UNCHANGED <<coframe, conversation_history, nextId, co_tools, co_response, co_k,
                   co_results, co_result, owners>>

\* lines 128-133: the session answers and the coroutine is resumed
CoToolReturn(p) ==
    /\ prog = "co" /\ co_holder = 0 /\ co_pc[p] = "in_tool"
    /\ CoRecord(p, OutOk)
    /\ co_pc' = [co_pc EXCEPT ![p] = "tools"]
    /\ co_holder' = p
    /\ UNCHANGED <<coframe, conversation_history, nextId, co_tools, co_response,
                   co_result, owners>>

\* lines 137-143
CoToolRaises(p) ==
    /\ prog = "co" /\ co_holder = 0 /\ co_pc[p] = "in_tool"
    /\ CoRecord(p, OutCallErr)
    /\ co_pc' = [co_pc EXCEPT ![p] = "tools"]
    /\ co_holder' = p
    /\ UNCHANGED <<coframe, conversation_history, nextId, co_tools, co_response,
                   co_result, owners>>

\* lines 145-157
CoSendResults(p) ==
    /\ prog = "co" /\ co_holder = p /\ co_pc[p] = "tools"
    /\ co_k[p] > Len(co_response[p])
    /\ CoAppend(p, ToolMessages(co_results[p]))
    /\ co_pc' = [co_pc EXCEPT ![p] = "await_model2"]
    /\ UNCHANGED <<coframe, nextId, co_tools, co_response, co_k, co_results,
                   co_result, co_holder>>

CoModel2Raises(p) ==
    /\ prog = "co" /\ co_holder = p /\ co_pc[p] = "await_model2"
    /\ CoExcept(p, ErrModel)
    /\ UNCHANGED <<coframe, nextId, co_tools, co_response, co_k, co_results>>

\* lines 159-162
CoModel2Text(p) ==
    /\ prog = "co" /\ co_holder = p /\ co_pc[p] = "await_model2"
    /\ \E final_message \in Texts :
          /\ CoAppend(p, << PMAssistantMsg(final_message, <<>>) >>)
          /\ co_result' = [co_result EXCEPT ![p] = final_message]
    /\ co_pc' = [co_pc EXCEPT ![p] = "returned"]
    /\ co_holder' = 0
    /\ UNCHANGED <<coframe, nextId, co_tools, co_response, co_k, co_results>>

CoNext ==
    \E p \in Coroutines :
        \/ CoBegin(p) \/ CoListed(p)
        \/ CoModel1Raises(p) \/ CoModel1Text(p) \/ CoModel1Tools(p)
        \/ CoToolBadArguments(p) \/ CoToolNoServer(p) \/ CoToolNotConnected(p)
        \/ CoToolStart(p) \/ CoToolReturn(p) \/ CoToolRaises(p)
        \/ CoSendResults(p) \/ CoModel2Raises(p) \/ CoModel2Text(p)

(***************************************************************************)
(* MCPServerManager: start_all_servers, start_server, close_all            *)
(* (mcp_manager.py)                                                        *)
(***************************************************************************)
\* config.MCP_SERVERS, in the order of the dict (config.py lines 14-30)
MCP_SERVERS == <<"notion", "email">>

\* what the manager leaves alone
mgrframe == <<prog, a3vars, rtvars, covars, a2vars, gwvars, obsvars, sessionCalls, conversation_history,
              all_tools, pm_response, pm_k, tool_results, pm_pc, pm_result, invocations>>

\* lines 69-79: one start_server task per server whose variable is set
Tasks == SelectSeq(MCP_SERVERS, LAMBDA s : s \in env)
TaskDone(s) == st_pc[s] \in {"true", "false"}

\* lines 66-81: the tasks are created and gathered
StartAllServers ==
    /\ prog = "mgr" /\ mg_pc = "init"
    /\ st_pc' = [s \in Range(MCP_SERVERS) |-> IF s \in env THEN "spawn" ELSE "none"]
    /\ mg_pc' = "gather"
    /\ UNCHANGED <<mgrframe, mlvars, sessions, env, stubborn, procs, servers, closed, mg_k, mg_result>>

\* lines 33-39: the child process is created
StartSpawn(s) ==
    /\ prog = "mgr" /\ st_pc[s] = "spawn"
    /\ procs' = [procs EXCEPT ![s] = "running"]
    /\ st_pc' = [st_pc EXCEPT ![s] = "connect"]
    /\ UNCHANGED <<mgrframe, mlvars, sessions, env, stubborn, servers, closed, mg_pc, mg_k, mg_result>>

\* lines 33-39 raise (command not found): lines 62-64 return False
StartSpawnFails(s) ==
    /\ prog = "mgr" /\ st_pc[s] = "spawn"
    /\ st_pc' = [st_pc EXCEPT ![s] = "false"]
    /\ UNCHANGED <<mgrframe, mlvars, sessions, env, stubborn, procs, servers, closed, mg_pc, mg_k, mg_result>>

\* lines 42-51: transport, session and initialize succeed; the process and
\* the session are stored
StartConnect(s) ==
    /\ prog = "mgr" /\ st_pc[s] = "connect"
    /\ servers' = Append(servers, s)
    /\ sessions' = Append(sessions, s)
    /\ st_pc' = [st_pc EXCEPT ![s] = "list"]
    /\ UNCHANGED <<mgrframe, mlvars, env, stubborn, procs, closed, mg_pc, mg_k, mg_result>>

\* one of lines 42-47 raises: lines 62-64 return False; the process created
\* at line 33 is stored nowhere
StartConnectFails(s) ==
    /\ prog = "mgr" /\ st_pc[s] = "connect"
    /\ st_pc' = [st_pc EXCEPT ![s] = "false"]
    /\ UNCHANGED <<mgrframe, mlvars, sessions, env, stubborn, procs, servers, closed, mg_pc, mg_k, mg_result>>

\* lines 54-60
StartListed(s) ==
    /\ prog = "mgr" /\ st_pc[s] = "list"
    /\ st_pc' = [st_pc EXCEPT ![s] = "true"]
    /\ UNCHANGED <<mgrframe, mlvars, sessions, env, stubborn, procs, servers, closed, mg_pc, mg_k, mg_result>>

\* line 54 raises: lines 62-64 return False; session and process stay stored
StartListFails(s) ==
    /\ prog = "mgr" /\ st_pc[s] = "list"
    /\ st_pc' = [st_pc EXCEPT ![s] = "false"]
    /\ UNCHANGED <<mgrframe, mlvars, sessions, env, stubborn, procs, servers, closed, mg_pc, mg_k, mg_result>>

\* lines 81-82: `return all(results)`, True for an empty list
StartAllReturns ==
    /\ prog = "mgr" /\ mg_pc = "gather"
    /\ \A s \in Range(Tasks) : TaskDone(s)
    /\ mg_result' = IF \A s \in Range(Tasks) : st_pc[s] = "true" THEN "True" ELSE "False"
    /\ mg_pc' = "started"
    /\ UNCHANGED <<mgrframe, mlvars, sessions, env, stubborn, st_pc, procs, servers, closed, mg_k>>

\* groq_agent.py line 180: close_all is entered
CloseAll ==
    /\ prog = "mgr" /\ mg_pc = "started"
    /\ mg_pc' = "close_sessions"
    /\ mg_k' = 1
    /\ listing' = <<>> /\ prev_listing' = <<>> /\ listed' = 0
    /\ UNCHANGED <<mgrframe, requests, sessions, env, stubborn, st_pc, procs, servers, closed, mg_result>>

\* lines 118-120: session.close() returns
CloseSession ==
    /\ prog = "mgr" /\ mg_pc = "close_sessions" /\ mg_k <= Len(sessions)
    /\ closed' = closed \cup {sessions[mg_k]}
    /\ mg_k' = mg_k + 1
    /\ UNCHANGED <<mgrframe, mlvars, sessions, env, stubborn, st_pc, procs, servers, mg_pc, mg_result>>

\* lines 121-122: session.close() raises, the loop goes on
CloseSessionRaises ==
    /\ prog = "mgr" /\ mg_pc = "close_sessions" /\ mg_k <= Len(sessions)
    /\ mg_k' = mg_k + 1
    /\ UNCHANGED <<mgrframe, mlvars, sessions, env, stubborn, st_pc, procs, servers, closed, mg_pc, mg_result>>

\* line 124: the second loop starts
CloseProcesses ==
    /\ prog = "mgr" /\ mg_pc = "close_sessions" /\ mg_k > Len(sessions)
    /\ mg_pc' = "close_processes"
    /\ mg_k' = 1
    /\ UNCHANGED <<mgrframe, mlvars, sessions, env, stubborn, st_pc, procs, servers, closed, mg_result>>

\* lines 126-127: process.terminate(), then `await process.wait()`
CloseTerminate ==
    /\ prog = "mgr" /\ mg_pc = "close_processes" /\ mg_k <= Len(servers)
    /\ mg_pc' = "wait"
    /\ UNCHANGED <<mgrframe, mlvars, sessions, env, stubborn, st_pc, procs, servers, closed, mg_k, mg_result>>

\* line 127: the process exits on the signal and wait() returns
CloseWaitReturns ==
    /\ prog = "mgr" /\ mg_pc = "wait"
    /\ servers[mg_k] \notin stubborn
    /\ procs' = [procs EXCEPT ![servers[mg_k]] = "exited"]
    /\ mg_k' = mg_k + 1
    /\ mg_pc' = "close_processes"
    /\ UNCHANGED <<mgrframe, mlvars, sessions, env, stubborn, st_pc, servers, closed, mg_result>>

\* line 129: close_all returns; self.sessions and self.servers are not cleared
CloseAllReturns ==
    /\ prog = "mgr" /\ mg_pc = "close_processes" /\ mg_k > Len(servers)
    /\ mg_pc' = "closed"
    /\ UNCHANGED <<mgrframe, mlvars, sessions, env, stubborn, st_pc, procs, servers, closed, mg_k, mg_result>>

\* the request a session receives, with the state of the session and of its
\* process at that time
Request(s, kind) ==
    [server |-> s, request |-> kind, closed |-> s \in closed, process |-> procs[s]]

\* lines 96-114, called by process_message (groq_agent.py line 75) and by
\* initialize (line 32): one list_tools request per entry of self.sessions
ListAllTools ==
    /\ prog = "mgr" /\ mg_pc \in {"started", "closed"}
    /\ \E failing \in SUBSET Range(sessions) : listing' = list_all_tools(failing)
    /\ prev_listing' = listing
    /\ listed' = IF listed = 0 THEN 1 ELSE 2
    /\ requests' = requests \cup {Request(s, "list_tools") : s \in Range(sessions)}
    /\ UNCHANGED <<mgrframe, sessions, env, stubborn, st_pc, procs, servers, closed,
                   mg_pc, mg_k, mg_result>>

\* lines 84-94: call_tool on a server of self.sessions sends the request
\* (for any other server it raises ValueError and changes nothing)
CallTool(s) ==
    /\ prog = "mgr" /\ mg_pc \in {"started", "closed"}
    /\ Connected(s)
    /\ requests' = requests \cup {Request(s, "call_tool")}
    /\ UNCHANGED <<mgrframe, sessions, env, stubborn, st_pc, procs, servers, closed,
                   mg_pc, mg_k, mg_result, listing, prev_listing, listed>>

MgrNext ==
    \/ ListAllTools \/ (\E s \in Range(MCP_SERVERS) : CallTool(s))
    \/ StartAllServers \/ StartAllReturns
    \/ \E s \in Range(MCP_SERVERS) :
          \/ StartSpawn(s) \/ StartSpawnFails(s) \/ StartConnect(s)
          \/ StartConnectFails(s) \/ StartListed(s) \/ StartListFails(s)
    \/ CloseAll \/ CloseSession \/ CloseSessionRaises \/ CloseProcesses
    \/ CloseTerminate \/ CloseWaitReturns \/ CloseAllReturns

(***************************************************************************)
(* approach_2_function_calling (Community Servers/main.py lines 92-209,    *)
(* and its copy Community Servers/src-mcp/function calling.py)             *)
(***************************************************************************)
\* names the model may put in a tool call; the branches of lines 175 and 183
\* know the first two
A2KnownTools == {"search_notion", "read_notion_page"}
A2ToolNames  == A2KnownTools \cup {"create_page"}

\* a local that no statement has assigned yet
Unbound == [computed_for |-> 0]
\* the json.dumps text computed at line 181 or 188 for one tool call
ResponseFor(tc) == [computed_for |-> tc.id]

a2frame == <<prog, a3vars, pmvars, obsvars, sessionCalls, rtvars, covars, mgrvars, gwvars>>

A2Cur == a2_tool_calls[a2_k]
A2AtCall == prog = "a2" /\ a2_pc = "tools" /\ a2_k <= Len(a2_tool_calls)
A2ToolMsg(tc, content) ==
    [role |-> "tool", content |-> content, tool_calls |-> <<>>,
     tool_call_id |-> tc.id, name |-> tc.name]

\* lines 153-159: the first completion call raises; nothing catches it
A2Model1Raises ==
    /\ prog = "a2" /\ a2_pc = "await_model1"
    /\ a2_pc' = "raised"
    /\ UNCHANGED <<a2frame, a2_messages, a2_content, a2_tool_calls, a2_k,
                   function_response, a2_result>>

\* lines 161-165: tool_calls is None; the `if` has no else and the function
\* ends without a return statement
A2Model1Text ==
    /\ prog = "a2" /\ a2_pc = "await_model1"
    /\ a2_content' \in Texts
    /\ a2_result' = "None"
    /\ a2_pc' = "returned"
    /\ UNCHANGED <<a2frame, a2_messages, a2_tool_calls, a2_k, function_response>>

\* lines 161-168: the response carries tool calls
A2Model1Tools ==
    /\ prog = "a2" /\ a2_pc = "await_model1"
    /\ \E n \in 1..MaxBatch :
       \E names \in [1..n -> A2ToolNames], argss \in [1..n -> ArgumentTexts] :
          LET tcs == BatchOf(1, n, names, argss) IN
          /\ a2_tool_calls' = tcs
          /\ a2_messages' = Append(a2_messages, A3AssistantMsg(tcs))
    /\ a2_content' = NoContent
    /\ a2_k' = 1
    /\ a2_pc' = "tools"
    /\ UNCHANGED <<a2frame, function_response, a2_result>>

\* line 172: json.loads raises
A2ToolBadArguments ==
    /\ A2AtCall
    /\ ~json_loads_ok(A2Cur.arguments)
    /\ a2_pc' = "raised"
    /\ UNCHANGED <<a2frame, a2_messages, a2_content, a2_tool_calls, a2_k,
                   function_response, a2_result>>

\* lines 175-196: one of the two known functions runs and its response is appended
A2ToolKnown ==
    /\ A2AtCall
    /\ json_loads_ok(A2Cur.arguments)
    /\ A2Cur.name \in A2KnownTools
    /\ function_response' = ResponseFor(A2Cur)
    /\ a2_messages' = Append(a2_messages, A2ToolMsg(A2Cur, function_response'))
    /\ a2_k' = a2_k + 1
    /\ UNCHANGED <<a2frame, a2_content, a2_tool_calls, a2_pc, a2_result>>

\* lines 176-188: a missing argument key or the Notion API raises
A2ToolKnownRaises ==
    /\ A2AtCall
    /\ json_loads_ok(A2Cur.arguments)
    /\ A2Cur.name \in A2KnownTools
    /\ a2_pc' = "raised"
    /\ UNCHANGED <<a2frame, a2_messages, a2_content, a2_tool_calls, a2_k,
                   function_response, a2_result>>

\* lines 175-196 for any other name: neither branch runs and line 195 reads
\* function_response as the earlier iteration left it
A2ToolOther ==
    /\ A2AtCall
    /\ json_loads_ok(A2Cur.arguments)
    /\ A2Cur.name \notin A2KnownTools
    /\ function_response # Unbound
    /\ a2_messages' = Append(a2_messages, A2ToolMsg(A2Cur, function_response))
    /\ a2_k' = a2_k + 1
    /\ UNCHANGED <<a2frame, a2_content, a2_tool_calls, function_response, a2_pc, a2_result>>

\* the same with no earlier iteration: line 195 raises UnboundLocalError
A2ToolOtherUnbound ==
    /\ A2AtCall
    /\ json_loads_ok(A2Cur.arguments)
    /\ A2Cur.name \notin A2KnownTools
    /\ function_response = Unbound
    /\ a2_pc' = "raised"
    /\ UNCHANGED <<a2frame, a2_messages, a2_content, a2_tool_calls, a2_k,
                   function_response, a2_result>>

\* lines 198-204: the loop is over, the second completion call is issued
A2SendResults ==
    /\ prog = "a2" /\ a2_pc = "tools" /\ a2_k > Len(a2_tool_calls)
    /\ a2_pc' = "await_model2"
    /\ UNCHANGED <<a2frame, a2_messages, a2_content, a2_tool_calls, a2_k,
                   function_response, a2_result>>

A2Model2Raises ==
    /\ prog = "a2" /\ a2_pc = "await_model2"
    /\ a2_pc' = "raised"
    /\ UNCHANGED <<a2frame, a2_messages, a2_content, a2_tool_calls, a2_k,
                   function_response, a2_result>>

\* lines 206-209
A2Model2Text ==
    /\ prog = "a2" /\ a2_pc = "await_model2"
    /\ a2_result' \in Texts
    /\ a2_pc' = "returned"
    /\ UNCHANGED <<a2frame, a2_messages, a2_content, a2_tool_calls, a2_k, function_response>>

A2Next ==
    \/ A2Model1Raises \/ A2Model1Text \/ A2Model1Tools
    \/ A2ToolBadArguments \/ A2ToolKnown \/ A2ToolKnownRaises
    \/ A2ToolOther \/ A2ToolOtherUnbound
    \/ A2SendResults \/ A2Model2Raises \/ A2Model2Text

(***************************************************************************)
(* The agent tools of Docs-sheet-mcp/Direct-Api.py: read_google_sheet,     *)
(* search_google_drive, list_recent_files, with the GoogleWorkspaceTools    *)
(* methods they call                                                        *)
(***************************************************************************)
DriveTools == {"search_google_drive", "list_recent_files"}

SliceEnd        == 50   \* line 213: data[1:50]
NoticeThreshold == 51   \* line 218: len(data) > 51
NoticeShown     == 50   \* line 219: "showing 50 of ..."

gwframe == <<prog, a3vars, pmvars, obsvars, sessionCalls, rtvars, covars, mgrvars, a2vars>>

Min(a, b) == IF a <= b THEN a ELSE b

\* the rows of the range; a row is told from the others by its position
SheetData(n) == [j \in 1..n |-> [row |-> j]]
\* a file record as the `fields=` of lines 62 and 119 ask for it
FileRecord(j) == [name |-> j, id |-> j, mimeType |-> "type"]
\* the record the `except HttpError` branches build (lines 69, 112, 126)
ErrorRecord(text) == [error |-> text]
\* Python's data[first:last], first and last counted from 0
Slice(data, first, last) == SubSeq(data, first + 1, Min(last, Len(data)))

\* lines 93-110: read_spreadsheet returns the sheet
GwReadSpreadsheet ==
    /\ prog = "gw" /\ gw_pc = "called" /\ gw_tool = "read_google_sheet"
    /\ ~gw_fails
    /\ gw_value' = [title |-> "title", data |-> SheetData(gw_len)]
    /\ gw_pc' = "fetched"
    /\ UNCHANGED <<gwframe, gw_tool, gw_len, gw_fails, gw_out>>

\* lines 111-112: HttpError
GwReadSpreadsheetFails ==
    /\ prog = "gw" /\ gw_pc = "called" /\ gw_tool = "read_google_sheet"
    /\ gw_fails
    /\ gw_value' = ErrorRecord("Failed to read spreadsheet")
    /\ gw_pc' = "fetched"
    /\ UNCHANGED <<gwframe, gw_tool, gw_len, gw_fails, gw_out>>

\* lines 194-195
GwSheetError ==
    /\ prog = "gw" /\ gw_pc = "fetched" /\ gw_tool = "read_google_sheet"
    /\ "error" \in DOMAIN gw_value
    /\ gw_out' = [kind |-> "error"]
    /\ gw_pc' = "returned"
    /\ UNCHANGED <<gwframe, gw_tool, gw_len, gw_fails, gw_value>>

\* lines 201-203
GwSheetNoData ==
    /\ prog = "gw" /\ gw_pc = "fetched" /\ gw_tool = "read_google_sheet"
    /\ "error" \notin DOMAIN gw_value
    /\ gw_value.data = <<>>
    /\ gw_out' = [kind |-> "no_data"]
    /\ gw_pc' = "returned"
    /\ UNCHANGED <<gwframe, gw_tool, gw_len, gw_fails, gw_value>>

\* lines 206-221: header, rows data[1:50], notice when len(data) > 51
GwSheetTable ==
    /\ prog = "gw" /\ gw_pc = "fetched" /\ gw_tool = "read_google_sheet"
    /\ "error" \notin DOMAIN gw_value
    /\ gw_value.data # <<>>
    /\ LET data == gw_value.data IN
       gw_out' = [kind   |-> "table",
                  header |-> data[1],
                  rows   |-> Slice(data, 1, SliceEnd),
                  notice |-> IF Len(data) > NoticeThreshold
                             THEN <<NoticeShown, Len(data) - 1>> ELSE <<>>]
    /\ gw_pc' = "returned"
    /\ UNCHANGED <<gwframe, gw_tool, gw_len, gw_fails, gw_value>>

\* lines 56-67 and 114-124: the Drive API answers
GwListFiles ==
    /\ prog = "gw" /\ gw_pc = "called" /\ gw_tool \in DriveTools
    /\ ~gw_fails
    /\ gw_value' = [j \in 1..gw_len |-> FileRecord(j)]
    /\ gw_pc' = "fetched"
    /\ UNCHANGED <<gwframe, gw_tool, gw_len, gw_fails, gw_out>>

\* lines 68-69 and 125-126: HttpError becomes a one-element list
GwListFilesFails ==
    /\ prog = "gw" /\ gw_pc = "called" /\ gw_tool \in DriveTools
    /\ gw_fails
    /\ gw_value' = << ErrorRecord(IF gw_tool = "search_google_drive"
                                  THEN "Search failed" ELSE "Failed to list files") >>
    /\ gw_pc' = "fetched"
    /\ UNCHANGED <<gwframe, gw_tool, gw_len, gw_fails, gw_out>>

\* lines 144-145 and 232-233: `if not files`
GwFilesNone ==
    /\ prog = "gw" /\ gw_pc = "fetched" /\ gw_tool \in DriveTools
    /\ gw_value = <<>>
    /\ gw_out' = [kind |-> "no_files"]
    /\ gw_pc' = "returned"
    /\ UNCHANGED <<gwframe, gw_tool, gw_len, gw_fails, gw_value>>

\* the keys lines 149-151 and 237-239 subscript
FileKeys == {"name", "id", "mimeType"}

\* lines 147-154 and 235-244: every entry has the keys
GwFilesFormatted ==
    /\ prog = "gw" /\ gw_pc = "fetched" /\ gw_tool \in DriveTools
    /\ gw_value # <<>>
    /\ \A j \in 1..Len(gw_value) : FileKeys \subseteq DOMAIN gw_value[j]
    /\ gw_out' = [kind |-> "files", entries |-> Len(gw_value)]
    /\ gw_pc' = "returned"
    /\ UNCHANGED <<gwframe, gw_tool, gw_len, gw_fails, gw_value>>

\* lines 149 and 237: file['name'] / file['mimeType'] raises KeyError
GwFilesKeyError ==
    /\ prog = "gw" /\ gw_pc = "fetched" /\ gw_tool \in DriveTools
    /\ gw_value # <<>>
    /\ \E j \in 1..Len(gw_value) : ~(FileKeys \subseteq DOMAIN gw_value[j])
    /\ gw_pc' = "raised"
    /\ UNCHANGED <<gwframe, gw_tool, gw_len, gw_fails, gw_value, gw_out>>

GwNext ==
    \/ GwReadSpreadsheet \/ GwReadSpreadsheetFails
    \/ GwSheetError \/ GwSheetNoData \/ GwSheetTable
    \/ GwListFiles \/ GwListFilesFails
    \/ GwFilesNone \/ GwFilesFormatted \/ GwFilesKeyError

(***************************************************************************)
(* Tool names: published by _create_tool_schemas, parsed by process_message *)
(***************************************************************************)
NameWords == {"notion", "email", "search", "page"}
\* the names of at most MaxNameParts parts
Names == UNION { [1..n -> NameWords] : n \in 1..MaxNameParts }

\* line 55: f"{server_name}_{tool['name']}"
qualified_name(server_name, tool_name) == server_name \o tool_name

\* list_all_tools returned the pair (rt_server, rt_tool); line 55 publishes it
NamesPublish ==
    /\ prog = "names" /\ rt_pc = "listed"
    /\ rt_name' = qualified_name(rt_server, rt_tool)
    /\ rt_pc' = "published"
    /\ UNCHANGED <<prog, a3vars, pmvars, obsvars, sessionCalls, covars, mgrvars, a2vars, gwvars, rt_server, rt_tool, rt_route>>

\* lines 99-108: the model sends the published name back and it is parsed
NamesParse ==
    /\ prog = "names" /\ rt_pc = "published"
    /\ rt_route' = [server |-> server_name_of(rt_name, <<>>),
                    tool   |-> actual_tool_name_of(rt_name)]
    /\ rt_pc' = "parsed"
    /\ UNCHANGED <<prog, a3vars, pmvars, obsvars, sessionCalls, covars, mgrvars, a2vars, gwvars, rt_server, rt_tool, rt_name>>

NamesNext == NamesPublish \/ NamesParse

(***************************************************************************)
(* Specification                                                           *)
(***************************************************************************)
InitSessions == {<<"notion", "email">>}

AgentsIdle ==
    /\ messages = <<A3UserMsg>>
    /\ iteration = 0
    /\ a3_response = <<>>
    /\ a3_k = 0
    /\ a3_pc = "top"
    /\ a3_result = "unset"
    /\ conversation_history = <<>>
    /\ all_tools = <<>>
    /\ pm_response = <<>>
    /\ pm_k = 0
    /\ tool_results = <<>>
    /\ pm_pc = "idle"
    /\ pm_result = "unset"
    /\ invocations = 0
    /\ nextId = 1
    /\ modelCalls = 0
    /\ sent = <<>>
    /\ execLog = <<>>
    /\ running = {}
    /\ toolFailed = FALSE
    /\ raisedIds = {}
    /\ lastModel = "none"
    /\ sessionCalls = <<>>

NamesIdle ==
    /\ rt_server = <<>> /\ rt_tool = <<>> /\ rt_name = <<>>
    /\ rt_route = <<>> /\ rt_pc = "off"

CoIdle ==
    /\ co_pc = <<>> /\ co_tools = <<>> /\ co_response = <<>> /\ co_k = <<>>
    /\ co_results = <<>> /\ co_result = <<>> /\ co_holder = 0 /\ owners = <<>>

A2Idle ==
    /\ a2_messages = <<>> /\ a2_content = "" /\ a2_tool_calls = <<>> /\ a2_k = 0
    /\ function_response = <<>> /\ a2_pc = "off" /\ a2_result = "unset"

GwIdle ==
    /\ gw_tool = "" /\ gw_len = 0 /\ gw_fails = FALSE /\ gw_value = <<>>
    /\ gw_pc = "off" /\ gw_out = <<>>

MgrIdle ==
    /\ env = {} /\ stubborn = {} /\ st_pc = <<>> /\ procs = <<>> /\ servers = <<>>
    /\ closed = {} /\ mg_pc = "off" /\ mg_k = 0 /\ mg_result = "unset"
    /\ listing = <<>> /\ prev_listing = <<>> /\ listed = 0 /\ requests = {}

Init ==
    /\ prog \in {"a3", "pm"}
    /\ sessions \in InitSessions
    /\ AgentsIdle
    /\ NamesIdle
    /\ CoIdle
    /\ MgrIdle
    /\ A2Idle
    /\ GwIdle

Next == A3Next \/ PMNext

Spec == Init /\ [][Next]_vars

InitPM == Init /\ prog = "pm"
SpecPMExt == InitPM /\ [][PMNextExt]_vars

InitNames ==
    /\ prog = "names"
    /\ sessions = <<>>
    /\ AgentsIdle
    /\ rt_server \in Names /\ rt_tool \in Names
    /\ rt_name = <<>> /\ rt_route = <<>> /\ rt_pc = "listed"
    /\ CoIdle
    /\ MgrIdle
    /\ A2Idle
    /\ GwIdle
SpecNames == InitNames /\ [][NamesNext]_vars

\* asyncio.gather(system.process_message(a), system.process_message(b))
InitCo ==
    /\ prog = "co"
    /\ sessions \in InitSessions
    /\ AgentsIdle
    /\ NamesIdle
    /\ co_pc = [p \in Coroutines |-> "start"]
    /\ co_tools = [p \in Coroutines |-> <<>>]
    /\ co_response = [p \in Coroutines |-> <<>>]
    /\ co_k = [p \in Coroutines |-> 0]
    /\ co_results = [p \in Coroutines |-> <<>>]
    /\ co_result = [p \in Coroutines |-> "unset"]
    /\ co_holder = 0
    /\ owners = <<>>
    /\ MgrIdle
    /\ A2Idle
    /\ GwIdle
SpecCo == InitCo /\ [][CoNext]_vars

\* MCPServerManager.__init__ (lines 15-17) in any environment, with child
\* programs that do or do not exit on terminate()
InitMgr ==
    /\ prog = "mgr"
    /\ sessions = <<>>
    /\ AgentsIdle
    /\ NamesIdle
    /\ CoIdle
    /\ env \in SUBSET Range(MCP_SERVERS)
    /\ stubborn \in SUBSET Range(MCP_SERVERS)
    /\ st_pc = [s \in Range(MCP_SERVERS) |-> "none"]
    /\ procs = [s \in Range(MCP_SERVERS) |-> "none"]
    /\ servers = <<>>
    /\ closed = {}
    /\ mg_pc = "init"
    /\ mg_k = 0
    /\ mg_result = "unset"
    /\ listing = <<>>
    /\ prev_listing = <<>>
    /\ listed = 0
    /\ requests = {}
    /\ A2Idle
    /\ GwIdle
SpecMgr == InitMgr /\ [][MgrNext]_vars

\* lines 145-159: the user message is in `messages`, the first call is issued
InitA2 ==
    /\ prog = "a2"
    /\ sessions = <<>>
    /\ AgentsIdle
    /\ NamesIdle
    /\ CoIdle
    /\ MgrIdle
    /\ GwIdle
    /\ a2_messages = <<A3UserMsg>>
    /\ a2_content = ""
    /\ a2_tool_calls = <<>>
    /\ a2_k = 0
    /\ function_response = Unbound
    /\ a2_pc = "await_model1"
    /\ a2_result = "unset"
SpecA2 == InitA2 /\ [][A2Next]_vars

\* a tool function is called by the agent; the API fails or answers
InitGw ==
    /\ prog = "gw"
    /\ sessions = <<>>
    /\ AgentsIdle
    /\ NamesIdle
    /\ CoIdle
    /\ MgrIdle
    /\ A2Idle
    /\ \/ gw_tool = "read_google_sheet" /\ gw_len \in 0..MaxSheetRows
       \/ gw_tool \in DriveTools /\ gw_len \in 0..MaxFiles
    /\ gw_fails \in BOOLEAN
    /\ gw_value = <<>>
    /\ gw_pc = "called"
    /\ gw_out = <<>>
SpecGw == InitGw /\ [][GwNext]_vars

(***************************************************************************)
(* Observations used by the properties                                     *)
(***************************************************************************)
Roles(h) == [j \in 1..Len(h) |-> h[j].role]

\* ids of the tool calls requested by the assistant messages of h
RequestedIds(h) ==
    UNION { {h[j].tool_calls[c].id : c \in 1..Len(h[j].tool_calls)} :
            j \in {x \in 1..Len(h) : h[x].role = "assistant"} }

\* positions of the tool messages of h that answer tool call `id`
AnswersTo(h, id) == {j \in 1..Len(h) : h[j].role = "tool" /\ h[j].tool_call_id = id}

\* ids carried by the tool messages of h, in order
ToolMessageIds(h) ==
    LET t == SelectSeq(h, LAMBDA m : m.role = "tool")
    IN  [j \in 1..Len(t) |-> t[j].tool_call_id]

\* the model numbers its tool calls in the order it emits them (BatchOf),
\* so "in emission order" is "with increasing ids"
Increasing(ids) == \A a, b \in 1..Len(ids) : a < b => ids[a] < ids[b]

AssistantCount(h) == Cardinality({j \in 1..Len(h) : h[j].role = "assistant"})

A3Finished == prog = "a3" /\ a3_pc \in {"returned", "raised"}
PMReturned == prog = "pm" /\ pm_pc = "returned"
TheHistory == IF prog = "a3" THEN messages ELSE conversation_history

(***************************************************************************)
(* Properties                                                              *)
(***************************************************************************)

\* C1: at every completion call of process_message, each tool_call id of an
\* assistant message in the transmitted history has exactly one tool message
\* with that id in the transmitted history.
C1_EveryToolCallAnswered ==
    prog = "pm" =>
        \A id \in RequestedIds(sent) : Cardinality(AnswersTo(sent, id)) = 1

\* C2: one invocation of approach_3_agent_loop or process_message never makes
\* more completion calls than the iteration bound plus one.
C2_ModelCallsBounded == modelCalls <= max_iterations + 1

C2_Witness ==
    /\ prog = "a3" /\ a3_pc = "returned"
    /\ modelCalls = max_iterations

\* C3: if every model response of an approach_3_agent_loop run carried tool
\* calls and every tool succeeded, the finished run has returned
\* "Max iterations reached" after exactly 5 completion calls, without raising.
C3_LimitDiagnostic ==
    (/\ A3Finished
     /\ lastModel = "tools"
     /\ AssistantCount(messages) = modelCalls
     /\ ~toolFailed)
    => /\ a3_pc = "returned"
       /\ a3_result = MaxIterationsReached
       /\ modelCalls = 5
       /\ iteration = 5

C3_Witness ==
    /\ prog = "a3" /\ a3_pc = "returned" /\ a3_result = MaxIterationsReached
    /\ ~toolFailed /\ modelCalls = 5

\* C4: a first process_message whose model response has no tool calls returns
\* the model's text and leaves exactly 2 messages: user, assistant.
C4_NoToolTwoMessages ==
    (/\ PMReturned /\ invocations = 1
     /\ modelCalls = 1 /\ lastModel = "text")
    => /\ pm_result \in Texts
       /\ Roles(conversation_history) = <<"user", "assistant">>
       /\ conversation_history[Len(conversation_history)].content = pm_result

\* C5: a run with one search call in round 1, one read call in round 2 and a
\* text answer in round 3 ends with 6 messages: user, assistant/tool-call,
\* tool-result, assistant/tool-call, tool-result, assistant-final.
C5_ScenarioBSixMessages ==
    (/\ prog = "a3" /\ a3_pc = "returned" /\ lastModel = "text" /\ modelCalls = 3
     /\ Len(messages) >= 4
     /\ messages[2].role = "assistant" /\ Len(messages[2].tool_calls) = 1
     /\ messages[2].tool_calls[1].name = "search_notion"
     /\ messages[4].role = "assistant" /\ Len(messages[4].tool_calls) = 1
     /\ messages[4].tool_calls[1].name = "read_page")
    => Roles(messages) = <<"user", "assistant", "tool", "assistant", "tool", "assistant">>

\* C6: when call_tool raised for a call of the batch, process_message still
\* answers every call of the batch with one tool message (the error text for
\* the raising call), calls the model again and returns the model's answer.
C6_ToolFailureNotFatal ==
    LET ids == {pm_response[c].id : c \in 1..Len(pm_response)} IN
    (/\ PMReturned
     /\ ids \cap raisedIds # {}
     /\ lastModel # "raised")
    => /\ \A id \in ids : Cardinality(AnswersTo(conversation_history, id)) = 1
       /\ \A id \in ids \cap raisedIds :
             \A j \in AnswersTo(conversation_history, id) :
                conversation_history[j].content = OutCallErr
       /\ modelCalls = 2
       /\ pm_result \in Texts
       /\ conversation_history[Len(conversation_history)] = PMAssistantMsg(pm_result, <<>>)

\* C7: whatever the tool outcome (the function raises, the name is not in
\* available_tools, the arguments are not JSON), approach_3_agent_loop does
\* not propagate an exception.
C7_A3NeverRaises == ~(prog = "a3" /\ a3_pc = "raised" /\ toolFailed)

\* C8: when a completion call of process_message fails, the error is returned
\* and conversation_history is what was transmitted with that call.
C8_ModelFailureLeavesHistory ==
    (PMReturned /\ lastModel = "raised")
    => /\ pm_result = ErrModel
       /\ conversation_history = sent

C8_Witness ==
    /\ PMReturned /\ lastModel = "raised" /\ modelCalls = 2
    /\ ToolMessageIds(conversation_history) # <<>>

\* C9: when every tool call succeeded, the finished conversation holds exactly
\* one tool message per requested tool call, carrying its id, and no tool
\* message for an id that was not requested.
C9_OneResultPerRequest ==
    ((A3Finished \/ PMReturned) /\ ~toolFailed)
    => /\ \A id \in RequestedIds(TheHistory) : Cardinality(AnswersTo(TheHistory, id)) = 1
       /\ \A j \in 1..Len(TheHistory) :
             TheHistory[j].role = "tool" => TheHistory[j].tool_call_id \in RequestedIds(TheHistory)

C9_Witness ==
    /\ PMReturned /\ ~toolFailed /\ lastModel = "text"
    /\ Len(pm_response) = 2
    /\ Len(ToolMessageIds(conversation_history)) = 2

\* C10: tool calls are executed one at a time, in the order the model emitted
\* them, and the tool messages are appended in that order.
C10_SequentialInOrder ==
    /\ Cardinality(running) <= 1
    /\ Increasing(execLog)
    /\ Increasing(ToolMessageIds(TheHistory))
    /\ Increasing([j \in 1..Len(tool_results) |-> tool_results[j].tool_call_id])

C10_Witness ==
    /\ PMReturned /\ Len(pm_response) = 2
    /\ Len(execLog) = 2
    /\ Len(ToolMessageIds(conversation_history)) = 2

\* C12: a tool call whose name has no separator and is listed by more than one
\* server is rejected as ambiguous: no request for it goes to any session.
C12_AmbiguousNameRejected ==
    (prog = "pm" /\ pm_pc \in {"tools", "in_tool"})
    => \A c \in 1..Len(pm_response) :
          (/\ Len(pm_response[c].name) = 1
           /\ Len(Exposing(all_tools, pm_response[c].name)) > 1)
          => \A j \in 1..Len(sessionCalls) : sessionCalls[j].id # pm_response[c].id

\* C13: a request is sent to a session only for a (server, operation) pair that
\* exists: the server is connected and offers the operation.
C13_UnknownToolNotCalled ==
    prog = "pm" =>
        \A j \in 1..Len(sessionCalls) :
            /\ Connected(sessionCalls[j].server)
            /\ sessionCalls[j].tool \in Range(ServerTools(sessionCalls[j].server))

\* C14: MCPServerManager.call_tool never raises to its caller.
C14_CallToolNeverRaises == prog = "pm" => raisedIds = {}

\* C15: every tool call requested by the model is executed at most once.
C15_NoRetry ==
    \A a, b \in 1..Len(execLog) : a # b => execLog[a] # execLog[b]

C15_Witness ==
    /\ PMReturned /\ lastModel = "text"
    /\ raisedIds \cap Range(execLog) # {}
    /\ Len(execLog) = 2

IsPrefix(a, b) == Len(a) <= Len(b) /\ SubSeq(b, 1, Len(a)) = a

\* C16: every step of process_message leaves the earlier entries of
\* conversation_history in place (the old history is a prefix of the new one);
\* the only other change is clear_conversation, which empties it.
C16_AppendOnly ==
    [][ \/ IsPrefix(conversation_history, conversation_history')
        \/ /\ pm_pc \in {"idle", "returned"}
           /\ pm_pc' = pm_pc /\ invocations' = invocations
           /\ conversation_history' = <<>> ]_vars

C16_Witness ==
    /\ PMReturned /\ invocations = 2
    /\ conversation_history = <<>>

\* C17: after a cancellation every tool call of the assistant message of the
\* cancelled invocation has its tool message in conversation_history.
C17_CancelLeavesConsistent ==
    (prog = "pm" /\ pm_pc = "cancelled")
    => \A c \in 1..Len(pm_response) :
          Cardinality(AnswersTo(conversation_history, pm_response[c].id)) = 1

\* C19: when the session never answers, process_message still has a step to
\* take (a deadline that ends the wait).
C19_ToolCallDeadline ==
    (prog = "pm" /\ pm_pc = "waiting_forever") => ENABLED PMNext

\* C11: the name published for a (server, tool) pair, parsed back, gives
\* exactly that server and that tool.
C11_NameRoundTrip ==
    (prog = "names" /\ rt_pc = "parsed")
    => /\ <<rt_route.server>> = rt_server
       /\ rt_route.tool = rt_tool
\* C18: when two process_message invocations run concurrently on the shared
\* system, the messages one of them appends to conversation_history are
\* never interleaved with the messages of the other: between two messages of
\* one invocation there is no message of the other.
C18_NoInterleaving ==
    prog = "co" =>
        \A i, j, k \in 1..Len(owners) :
            (i < j /\ j < k /\ owners[i] = owners[k]) => owners[j] = owners[i]

\* C20: close_all completes even when a child process does not exit after
\* terminate(): while close_all is under way it always has a next step (the
\* wait is bounded and followed by a kill), so a hanging process does not
\* keep the remaining servers from being shut down.
C20_CloseAllCompletes ==
    (prog = "mgr" /\ mg_pc \in {"close_sessions", "close_processes", "wait"})
        => ENABLED MgrNext

\* the servers of the last list_all_tools output, in its order
ListedServers == [j \in 1..Len(listing) |-> listing[j].server]

\* C21: the order in which list_all_tools enumerates the servers is fixed by
\* the configuration (the order of config.MCP_SERVERS), whatever the
\* completion order of the start_server tasks.
C21_ListOrderDeterministic ==
    (prog = "mgr" /\ listed >= 1) =>
        ListedServers = SelectSeq(MCP_SERVERS, LAMBDA s : s \in Range(ListedServers))

\* C22: two list_all_tools calls with no server started or closed in between
\* yield the same ordered output.
C22_ListTwiceIdentical ==
    (prog = "mgr" /\ listed = 2) =>
        listing = prev_listing

\* C25: once close_all has returned, no child process spawned by
\* start_server is still running.
C25_NoProcessLeftRunning ==
    (prog = "mgr" /\ mg_pc = "closed") =>
        \A s \in Range(MCP_SERVERS) : procs[s] # "running"

\* C26: start_all_servers returns True only if every server of
\* config.MCP_SERVERS has a connected session.
C26_TrueOnlyIfAllConnected ==
    (prog = "mgr" /\ mg_result = "True") => Range(sessions) = Range(MCP_SERVERS)

\* C30: no list_tools or call_tool request is sent to a session that was
\* closed or to a server process that was terminated.
C30_NoRequestAfterClose ==
    prog = "mgr" =>
        \A r \in requests : ~r.closed /\ r.process # "exited"

\* C29: after a process_message invocation that completes without an
\* internal exception, the last entry of conversation_history is an
\* assistant message whose content is the string returned to the caller.
C29_LastEntryIsAnswer ==
    (PMReturned /\ pm_result \notin {ErrModel, ErrJson}) =>
        /\ conversation_history # <<>>
        /\ conversation_history[Len(conversation_history)].role = "assistant"
        /\ conversation_history[Len(conversation_history)].content = pm_result

C29_Witness ==
    /\ PMReturned /\ pm_result \in Texts /\ modelCalls = 2
    /\ invocations = 2
    /\ ToolMessageIds(conversation_history) # <<>>

\* C23: when the first response carries no tool calls, approach_2_function_calling
\* returns that response's text.
C23_NoToolCallsReturnsText ==
    (prog = "a2" /\ a2_pc = "returned" /\ a2_tool_calls = <<>>) => a2_result = a2_content

\* C27: the content of every tool message appended by approach_2_function_calling
\* is the response computed for the tool call whose id it carries.
C27_ToolMessageOwnResponse ==
    prog = "a2" =>
        \A j \in 1..Len(a2_messages) :
            a2_messages[j].role = "tool" =>
                \E i \in 1..Len(a2_tool_calls) :
                    /\ a2_tool_calls[i].id = a2_messages[j].tool_call_id
                    /\ a2_messages[j].content = ResponseFor(a2_tool_calls[i])

\* the data rows of the range: every row after the header
DataRows(data) == SubSeq(data, 2, Len(data))

\* C24: read_google_sheet renders the header and the first 50 data rows
\* (all of them when there are fewer), and appends the truncation notice
\* exactly when a data row was left out.
C24_First50RowsAndNotice ==
    (prog = "gw" /\ gw_pc = "returned" /\ gw_out.kind = "table") =>
        LET data == gw_value.data IN
        /\ gw_out.header = data[1]
        /\ gw_out.rows = SubSeq(DataRows(data), 1, Min(50, Len(DataRows(data))))
        /\ (gw_out.notice # <<>>) <=> (Len(gw_out.rows) < Len(DataRows(data)))

\* C28: when the Drive API call fails with HttpError, search_google_drive
\* and list_recent_files return a text and do not raise.
C28_DriveErrorReturnsText ==
    (prog = "gw" /\ gw_tool \in DriveTools /\ gw_fails) => gw_pc # "raised"

====
